---------------------------- MODULE Spec2Model ----------------------------
(***************************************************************************)
(* Model of nni/compression/torch/builtin_quantizers.py:                   *)
(*   NaiveQuantizer, update_ema, update_quantization_param,                *)
(*   QAT_Quantizer and DoReFaQuantizer.                                    *)
(*                                                                         *)
(* Tensor elements are exact rationals <<n, d>> (d > 0, lowest terms).     *)
(* The IEEE special values the code can produce by dividing by zero are    *)
(* kept: NaN is <<0, 0>>, +inf is <<1, 0>>, -inf is <<-1, 0>>.  Rounding   *)
(* error of float32 arithmetic is not modelled.                            *)
(***************************************************************************)
EXTENDS Integers, Sequences, FiniteSets

VARIABLES
    steps,        \* QAT_Quantizer.steps
    config,       \* QAT: layer -> its configuration (fixed at construction)
    op,           \* QAT: layer -> the buffers registered on layer.module
    ema_updates,  \* history: number of EMA updates done so far, over all layers
    seen,         \* history: layer -> {<<min, max>>} of the batches the EMA saw
    was_active,   \* history: layer -> a hook call on it took the quantizing path
    layer_scale,  \* NaiveQuantizer.layer_scale (a dict: op_name -> scale)
    pure,         \* arguments and results of the pure functions under check
    lastCall      \* the last call made: its arguments and what it returned

vars == <<steps, config, op, ema_updates, seen, was_active, layer_scale, pure, lastCall>>

---------------------------------------------------------------------------
(* Bounds of the model.                                                    *)

MaxSteps == 3
MaxEmaUpdates == 2
MaxBits == 3

---------------------------------------------------------------------------
(* Exact arithmetic on the values of a float tensor.                       *)

NaN == <<0, 0>>
None == << >>

Abs(i) == IF i < 0 THEN -i ELSE i

Sign(i) == IF i < 0 THEN -1 ELSE IF i > 0 THEN 1 ELSE 0

RECURSIVE Gcd(_, _)
Gcd(a, b) == IF b = 0 THEN a ELSE Gcd(b, a % b)

\* the value n/d; a zero denominator gives NaN or a signed infinity
Norm(n, d) ==
    IF d = 0 THEN <<Sign(n), 0>>
    ELSE LET g == Gcd(Abs(n), Abs(d))
             s == IF d < 0 THEN -1 ELSE 1
         IN  <<(s * n) \div g, (s * d) \div g>>

R(i) == <<i, 1>>

IsNaN(a) == a = NaN

Neg(a) == <<-a[1], a[2]>>

Mul(a, b) ==
    IF a[2] = 0 \/ b[2] = 0 THEN <<Sign(a[1]) * Sign(b[1]), 0>>
    ELSE LET g1 == Gcd(Abs(a[1]), b[2])
             g2 == Gcd(Abs(b[1]), a[2])
         IN  IF a[1] = 0 \/ b[1] = 0 THEN <<0, 1>>
             ELSE <<(a[1] \div g1) * (b[1] \div g2), (a[2] \div g2) * (b[2] \div g1)>>

\* 1/a: 1/0 is +inf, 1/inf is 0
Inv(a) == IF a[2] = 0 THEN (IF a[1] = 0 THEN NaN ELSE <<0, 1>>) ELSE Norm(a[2], a[1])

Div(a, b) == Mul(a, Inv(b))

Add(a, b) ==
    IF IsNaN(a) \/ IsNaN(b) THEN NaN
    ELSE IF a[2] = 0 /\ b[2] = 0 THEN (IF a = b THEN a ELSE NaN)
    ELSE IF a[2] = 0 THEN a
    ELSE IF b[2] = 0 THEN b
    ELSE LET g == Gcd(a[2], b[2])
         IN  Norm(a[1] * (b[2] \div g) + b[1] * (a[2] \div g), (a[2] \div g) * b[2])

Sub(a, b) == Add(a, Neg(b))

\* a < b as IEEE compares: false as soon as one side is NaN
Lt(a, b) ==
    IF IsNaN(a) \/ IsNaN(b) THEN FALSE
    ELSE LET d == Sub(a, b) IN (~IsNaN(d)) /\ d[1] < 0

Le(a, b) == (~IsNaN(a)) /\ (~IsNaN(b)) /\ (a = b \/ Lt(a, b))

AbsR(a) == <<Abs(a[1]), a[2]>>

\* Python's min(a, b) and max(a, b): the first argument unless the second beats it
PyMin(a, b) == IF Lt(b, a) THEN b ELSE a
PyMax(a, b) == IF Lt(a, b) THEN b ELSE a

\* torch.round: to the nearest integer, a tie to the even one
Round(a) ==
    IF a[2] = 0 THEN a
    ELSE LET f == a[1] \div a[2]
             r2 == 2 * (a[1] - f * a[2])
         IN  IF r2 < a[2] THEN R(f)
             ELSE IF r2 > a[2] THEN R(f + 1)
             ELSE IF f % 2 = 0 THEN R(f) ELSE R(f + 1)

\* torch.clamp(x, lo, hi) = min(max(x, lo), hi), NaN kept
Clamp(a, lo, hi) ==
    IF IsNaN(a) THEN NaN
    ELSE IF Lt(a, lo) THEN lo
    ELSE IF Lt(hi, a) THEN hi
    ELSE a

RECURSIVE Pow(_, _)
Pow(a, n) == IF n = 0 THEN R(1) ELSE Mul(a, Pow(a, n - 1))

\* 1 << bits
Shl1(bits) == 2 ^ bits

\* torch.min / torch.max / elementwise map over a tensor (a sequence of values)
RECURSIVE TMin(_)
TMin(t) == IF Len(t) = 1 THEN t[1] ELSE PyMin(t[1], TMin(Tail(t)))

RECURSIVE TMax(_)
TMax(t) == IF Len(t) = 1 THEN t[1] ELSE PyMax(t[1], TMax(Tail(t)))

---------------------------------------------------------------------------
(* update_ema                                                              *)

\* <<biased_ema, unbiased_ema>>
update_ema(biased_ema, value, decay, step) ==
    LET biased == Add(Mul(biased_ema, decay), Mul(Sub(R(1), decay), value))
        unbiased == Div(biased, Sub(R(1), Pow(decay, step)))
    IN  <<biased, unbiased>>

---------------------------------------------------------------------------
(* update_quantization_param                                               *)

nudged_zero_point_unrounded(initial_zero_point, qmin, qmax) ==
    IF Lt(initial_zero_point, qmin) THEN qmin
    ELSE IF Lt(qmax, initial_zero_point) THEN qmax
    ELSE initial_zero_point

nudged_zero_point(initial_zero_point, qmin, qmax) ==
    IF Lt(initial_zero_point, qmin) THEN qmin
    ELSE IF Lt(qmax, initial_zero_point) THEN qmax
    ELSE Round(initial_zero_point)

\* <<scale, nudged_zero_point>>
update_quantization_param(bits, rmin0, rmax0) ==
    LET rmin == PyMin(rmin0, R(0))
        rmax == PyMax(rmax0, R(0))
        qmin == R(0)
        qmax == R(Shl1(bits) - 1)
        scale == Div(Sub(rmax, rmin), Sub(qmax, qmin))
        initial_zero_point == Sub(qmin, Div(rmin, scale))
    IN  <<scale, nudged_zero_point(initial_zero_point, qmin, qmax)>>

---------------------------------------------------------------------------
(* QAT_Quantizer._quantize and _dequantize, on one element                 *)

quantize_no_zero_point(bits, scale, zero_point, real_val) ==
    Round(Clamp(Div(real_val, scale), R(0), R(Shl1(bits) - 1)))

_quantize(bits, scale, zero_point, real_val) ==
    LET transformed_val == Add(zero_point, Div(real_val, scale))
        qmin == R(0)
        qmax == R(Shl1(bits) - 1)
        clamped_val == Clamp(transformed_val, qmin, qmax)
    IN  Round(clamped_val)

dequantize_precedence(scale, zero_point, quantized_val) ==
    Sub(Mul(scale, quantized_val), zero_point)

_dequantize(scale, zero_point, quantized_val) ==
    Mul(scale, Sub(quantized_val, zero_point))


---------------------------------------------------------------------------
(* get_bits_length and the two tests every QAT hook starts with            *)

get_bits_length(cfg, quant_type) == cfg.quant_bits[quant_type]

bits_ok_off_by_one(bits) == bits >= 0

\* assert bits >= 1, "quant bits length should be at least 1"
bits_ok(bits) == bits >= 1

inactive_off_by_one(quant_start_step, s) == quant_start_step >= s

\* if quant_start_step > self.steps: return the input
inactive(quant_start_step, s) == quant_start_step > s

next_steps_backwards(s) == s - 1

\* self.steps += 1
next_steps(s) == s + 1

\* out = self._dequantize(op, self._quantize(bits, op, tensor)), elementwise
fake_quantize(bits, scale, zero_point, tensor) ==
    [i \in DOMAIN tensor |->
        _dequantize(scale, zero_point, _quantize(bits, scale, zero_point, tensor[i]))]

---------------------------------------------------------------------------
(* QAT_Quantizer                                                           *)

Layers == {"conv1", "fc1"}

\* a layer's configuration; quant_types is ["weight", "output"] throughout,
\* so every layer has the EMA buffers
Config(quant_start_step, weight_bits, output_bits) ==
    [ quant_start_step |-> quant_start_step,
      quant_bits |-> [weight |-> weight_bits, output |-> output_bits] ]

\* the config_list the quantizer is built with, as layer -> configuration
ConfigLists ==
    { [conv1 |-> Config(0, 2, 2), fc1 |-> Config(2, 0, 2)],
      [conv1 |-> Config(2, 1, 2), fc1 |-> Config(3, 2, 0)] }

\* the tensors the driver hands to the hooks
Tensors ==
    { <<R(0), R(0)>>, <<R(-1), R(2)>>, <<R(1), R(3)>> }

\* the buffers __init__ registers on a layer's module
InitBuffers ==
    [ zero_point |-> None,
      scale |-> None,
      ema_decay |-> <<99, 100>>,
      tracked_min_biased |-> R(0),
      tracked_min |-> R(0),
      tracked_max_biased |-> R(0),
      tracked_max |-> R(0) ]

Call(name, l, input, bits, result, path, out) ==
    [ call |-> name, layer |-> l, input |-> input, bits |-> bits,
      steps |-> steps, result |-> result, path |-> path, out |-> out ]

NoCall == Call("none", "", None, 0, "ok", "none", None)

QATInit ==
    /\ steps = 1
    /\ config \in ConfigLists
    /\ op = [l \in Layers |-> InitBuffers]
    /\ ema_updates = 0
    /\ seen = [l \in Layers |-> {}]
    /\ was_active = [l \in Layers |-> FALSE]
    /\ layer_scale = << >>
    /\ pure = None
    /\ lastCall = NoCall

quantize_weight(l, weight) ==
    LET weight_bits == get_bits_length(config[l], "weight")
        quant_start_step == config[l].quant_start_step
    IN  IF ~bits_ok(weight_bits)
        THEN /\ lastCall' = Call("quantize_weight", l, weight, weight_bits,
                                 "AssertionError", "none", None)
             /\ UNCHANGED <<steps, config, op, ema_updates, seen, was_active,
                            layer_scale, pure>>
        ELSE IF inactive(quant_start_step, steps)
        THEN /\ lastCall' = Call("quantize_weight", l, weight, weight_bits,
                                 "ok", "passthrough", weight)
             /\ UNCHANGED <<steps, config, op, ema_updates, seen, was_active,
                            layer_scale, pure>>
        ELSE LET rmin == TMin(weight)
                 rmax == TMax(weight)
                 p == update_quantization_param(weight_bits, rmin, rmax)
             IN  /\ op' = [op EXCEPT ![l].scale = p[1], ![l].zero_point = p[2]]
                 /\ lastCall' = Call("quantize_weight", l, weight, weight_bits,
                                     "ok", "quantize",
                                     fake_quantize(weight_bits, p[1], p[2], weight))
                 /\ was_active' = [was_active EXCEPT ![l] = TRUE]
                 /\ UNCHANGED <<steps, config, ema_updates, seen, layer_scale, pure>>

quantize_output(l, output) ==
    LET output_bits == get_bits_length(config[l], "output")
        quant_start_step == config[l].quant_start_step
    IN  IF ~bits_ok(output_bits)
        THEN /\ lastCall' = Call("quantize_output", l, output, output_bits,
                                 "AssertionError", "none", None)
             /\ UNCHANGED <<steps, config, op, ema_updates, seen, was_active,
                            layer_scale, pure>>
        ELSE IF inactive(quant_start_step, steps)
        THEN /\ lastCall' = Call("quantize_output", l, output, output_bits,
                                 "ok", "passthrough", output)
             /\ UNCHANGED <<steps, config, op, ema_updates, seen, was_active,
                            layer_scale, pure>>
        ELSE LET current_min == TMin(output)
                 current_max == TMax(output)
                 emin == update_ema(op[l].tracked_min_biased, current_min,
                                    op[l].ema_decay, steps)
                 emax == update_ema(op[l].tracked_max_biased, current_max,
                                    op[l].ema_decay, steps)
                 p == update_quantization_param(output_bits, emin[2], emax[2])
             IN  /\ ema_updates < MaxEmaUpdates
                 /\ op' = [op EXCEPT ![l].tracked_min_biased = emin[1],
                                     ![l].tracked_min = emin[2],
                                     ![l].tracked_max_biased = emax[1],
                                     ![l].tracked_max = emax[2],
                                     ![l].scale = p[1],
                                     ![l].zero_point = p[2]]
                 /\ lastCall' = Call("quantize_output", l, output, output_bits,
                                     "ok", "quantize",
                                     fake_quantize(output_bits, p[1], p[2], output))
                 /\ ema_updates' = ema_updates + 1
                 /\ seen' = [seen EXCEPT ![l] = @ \cup {<<current_min, current_max>>}]
                 /\ was_active' = [was_active EXCEPT ![l] = TRUE]
                 /\ UNCHANGED <<steps, config, layer_scale, pure>>

step ==
    /\ steps < MaxSteps
    /\ steps' = next_steps(steps)
    /\ lastCall' = Call("step", "", None, 0, "ok", "none", None)
    /\ UNCHANGED <<config, op, ema_updates, seen, was_active, layer_scale, pure>>

QuantizeWeight == \E l \in Layers, weight \in Tensors : quantize_weight(l, weight)

QuantizeOutput == \E l \in Layers, output \in Tensors : quantize_output(l, output)

QATNext == QuantizeWeight \/ QuantizeOutput \/ step

SpecQAT == QATInit /\ [][QATNext]_vars

---------------------------------------------------------------------------
(* NaiveQuantizer                                                          *)

NaiveLayers == {"conv1", "fc1"}

\* the weight tensors handed to NaiveQuantizer.quantize_weight
NaiveWeights ==
    { <<R(0), R(0)>>, <<R(3), R(2)>>, <<R(-1), R(1)>>, <<R(-2), <<1, 2>>>>,
      <<R(254), R(7)>>, <<R(-127), R(5)>> }

\* what tensor.type(torch.int8) may make of NaN or an infinity (the
\* conversion is undefined)
Int8OfNaN == {-128, 0}

\* weight.abs().max()
AbsMax(t) == TMax([i \in DOMAIN t |-> AbsR(t[i])])

\* self.layer_scale.get(op_name, 0)
layer_scale_get(op_name) ==
    IF op_name \in DOMAIN layer_scale THEN layer_scale[op_name] ELSE R(0)

naive_scale_overwrite(previous, new_scale) == new_scale

\* scale = max(self.layer_scale.get(op_name, 0), new_scale)
naive_scale(previous, new_scale) == PyMax(previous, new_scale)

\* x.type(torch.int8): the fraction is dropped (towards zero), then the
\* integer is reduced to 8 bits
to_int8(a, nan_as) ==
    IF a[2] = 0 THEN nan_as
    ELSE LET t == IF a[1] >= 0 THEN a[1] \div a[2] ELSE -((-a[1]) \div a[2])
         IN  ((t + 128) % 256) - 128

naive_quantize_weight(weight, op_name, nan_as) ==
    LET new_scale == Div(AbsMax(weight), R(127))
        scale == naive_scale(layer_scale_get(op_name), new_scale)
    IN  /\ layer_scale' = [k \in DOMAIN layer_scale \cup {op_name} |->
                              IF k = op_name THEN scale ELSE layer_scale[k]]
        /\ lastCall' = Call("naive_quantize_weight", op_name, weight, 8, "ok", "quantize",
                            [i \in DOMAIN weight |->
                                Mul(R(to_int8(Div(weight[i], scale), nan_as)), scale)])
        /\ UNCHANGED <<steps, config, op, ema_updates, seen, was_active, pure>>

NaiveInit ==
    /\ steps = 1
    /\ layer_scale = << >>
    /\ lastCall = NoCall
    /\ config = << >>
    /\ op = << >>
    /\ ema_updates = 0
    /\ seen = << >>
    /\ was_active = << >>
    /\ pure = None

NaiveNext ==
    \E weight \in NaiveWeights, op_name \in NaiveLayers, nan_as \in Int8OfNaN :
        naive_quantize_weight(weight, op_name, nan_as)

SpecNaive == NaiveInit /\ [][NaiveNext]_vars

---------------------------------------------------------------------------
(* DoReFaQuantizer                                                         *)

\* the values a DoReFa weight takes, as indices into the tanh table
DoReFaValues == { R(-2), R(-1), <<-1, 2>>, R(0), <<1, 2>>, R(1), R(2) }

DoReFaWeights == { <<a, b>> : a \in DoReFaValues, b \in DoReFaValues }

\* torch.tanh, to three decimals, on the values of DoReFaValues
tanh(a) ==
    LET pos == IF AbsR(a) = R(0) THEN R(0)
               ELSE IF AbsR(a) = <<1, 2>> THEN Norm(462, 1000)
               ELSE IF AbsR(a) = R(1) THEN Norm(762, 1000)
               ELSE Norm(964, 1000)
    IN  IF a[1] < 0 THEN Neg(pos) ELSE pos

dorefa_quantize_pow_only(input_ri, q_bits) ==
    Div(Round(Mul(input_ri, R(2 ^ q_bits))), R(2 ^ q_bits))

\* DoReFaQuantizer.quantize, on one element
dorefa_quantize(input_ri, q_bits) ==
    LET scale == R(2 ^ q_bits - 1)
    IN  Div(Round(Mul(input_ri, scale)), scale)

dorefa_quantize_weight(weight, q_bits) ==
    LET t == [i \in DOMAIN weight |-> tanh(weight[i])]
        m == AbsMax(t)
        n == [i \in DOMAIN weight |-> Add(Div(t[i], Mul(R(2), m)), <<1, 2>>)]
        q == [i \in DOMAIN weight |-> dorefa_quantize(n[i], q_bits)]
    IN  /\ lastCall' = Call("dorefa_quantize_weight", "", weight, q_bits, "ok", "quantize",
                            [i \in DOMAIN weight |-> Sub(Mul(R(2), q[i]), R(1))])
        /\ UNCHANGED <<steps, config, op, ema_updates, seen, was_active,
                       layer_scale, pure>>

DoReFaInit == NaiveInit

DoReFaNext ==
    \E weight \in DoReFaWeights, q_bits \in 1..MaxBits :
        dorefa_quantize_weight(weight, q_bits)

SpecDoReFa == DoReFaInit /\ [][DoReFaNext]_vars

---------------------------------------------------------------------------
(* update_quantization_param, _quantize and _dequantize as pure functions  *)

\* the range ends and the values the pure functions are applied to
PureValues == { R(-3), R(-1), <<-1, 2>>, R(0), <<1, 3>>, R(1), R(2), R(5) }

PureInit ==
    /\ pure \in [ pc : {"args"}, bits : 1..MaxBits,
                  rmin : PureValues, rmax : PureValues, real_val : PureValues,
                  scale : {None}, zero_point : {None},
                  quantized_val : {None}, out : {None} ]
    /\ steps = 1
    /\ lastCall = NoCall
    /\ layer_scale = << >>
    /\ config = << >>
    /\ op = << >>
    /\ ema_updates = 0
    /\ seen = << >>
    /\ was_active = << >>

PureRest == <<steps, config, op, ema_updates, seen, was_active, layer_scale, lastCall>>

PureSolve ==
    /\ pure.pc = "args"
    /\ LET p == update_quantization_param(pure.bits, pure.rmin, pure.rmax)
       IN  pure' = [pure EXCEPT !.pc = "solved", !.scale = p[1], !.zero_point = p[2]]
    /\ UNCHANGED PureRest

PureQuantize ==
    /\ pure.pc = "solved"
    /\ pure' = [pure EXCEPT !.pc = "quantized",
                            !.quantized_val = _quantize(pure.bits, pure.scale,
                                                        pure.zero_point, pure.real_val)]
    /\ UNCHANGED PureRest

PureDequantize ==
    /\ pure.pc = "quantized"
    /\ pure' = [pure EXCEPT !.pc = "done",
                            !.out = _dequantize(pure.scale, pure.zero_point,
                                                pure.quantized_val)]
    /\ UNCHANGED PureRest

PureNext == PureSolve \/ PureQuantize \/ PureDequantize

SpecPure == PureInit /\ [][PureNext]_vars

---------------------------------------------------------------------------
(* Properties of update_quantization_param, _quantize, _dequantize         *)
(* (checked under SpecPure)                                                *)

QMax(bits) == 2 ^ bits - 1

\* the range update_quantization_param works on: [min(rmin, 0), max(rmax, 0)]
InExtendedRange(v, rmin, rmax) ==
    /\ Le(IF Lt(R(0), rmin) THEN R(0) ELSE rmin, v)
    /\ Le(v, IF Lt(rmax, R(0)) THEN R(0) ELSE rmax)

\* C1: for bits >= 1 and a range with rmin <= 0 <= rmax and rmin < rmax, the
\* zero_point update_quantization_param returns is an integer in [0, 2^bits - 1].
C1_ZeroPointIntegerInRange ==
    ( /\ pure.pc # "args"
      /\ Le(pure.rmin, R(0)) /\ Le(R(0), pure.rmax) /\ Lt(pure.rmin, pure.rmax) )
    => /\ pure.zero_point[2] = 1
       /\ pure.zero_point[1] >= 0
       /\ pure.zero_point[1] <= QMax(pure.bits)

\* a range whose real zero point is fractional and was rounded to an inner code
C1_Witness ==
    /\ pure.pc = "solved"
    /\ Le(pure.rmin, R(0)) /\ Le(R(0), pure.rmax) /\ Lt(pure.rmin, pure.rmax)
    /\ pure.zero_point[1] > 0 /\ pure.zero_point[1] < QMax(pure.bits)
    /\ Mul(pure.scale, pure.zero_point) # Neg(pure.rmin)

\* C3: for bits >= 1, rmin < rmax and v in the solved range (which is
\* [rmin, rmax] when rmin <= 0 <= rmax, and its extension to 0 otherwise, as for
\* the minimum and maximum of a weight tensor), _dequantize(_quantize(bits, v))
\* differs from v by at most scale.
C3_RoundTripWithinScale ==
    ( /\ pure.pc = "done"
      /\ Lt(pure.rmin, pure.rmax)
      /\ InExtendedRange(pure.real_val, pure.rmin, pure.rmax) )
    => Le(AbsR(Sub(pure.out, pure.real_val)), pure.scale)

\* a value strictly inside a range around 0 that the round trip moves
C3_Witness ==
    /\ pure.pc = "done"
    /\ Lt(pure.rmin, R(0)) /\ Lt(R(0), pure.rmax)
    /\ Lt(pure.rmin, pure.real_val) /\ Lt(pure.real_val, pure.rmax)
    /\ pure.out # pure.real_val
    /\ pure.zero_point[1] > 0

\* C4: for bits >= 1 and rmin < rmax, with the solved scale and zero_point,
\* _dequantize(_quantize(bits, 0)) is exactly 0, also when the zero point sits
\* on the boundary 0 or 2^bits - 1.
C4_ZeroExact ==
    ( /\ pure.pc = "done"
      /\ Lt(pure.rmin, pure.rmax)
      /\ pure.real_val = R(0) )
    => pure.out = R(0)

\* zero round-tripped with the zero point on the upper boundary 2^bits - 1
C4_Witness ==
    /\ pure.pc = "done"
    /\ Lt(pure.rmin, pure.rmax)
    /\ pure.real_val = R(0)
    /\ pure.zero_point = R(QMax(pure.bits))
    /\ pure.scale # R(1)

---------------------------------------------------------------------------
(* Properties of QAT_Quantizer (checked under SpecQAT)                     *)

Hooks == {"quantize_weight", "quantize_output"}

QuantType(call) == IF call = "quantize_weight" THEN "weight" ELSE "output"

\* the codec as the design states it: the code is rounded, then clamped
RefQuantize(bits, scale, zero_point, v) ==
    Clamp(Round(Add(zero_point, Div(v, scale))), R(0), R(QMax(bits)))

RefDequantize(scale, zero_point, q) == Mul(scale, Sub(q, zero_point))

\* the range a hook call solves its parameters from, read after the call
SolvedFrom(c) ==
    IF c.call = "quantize_weight"
    THEN <<TMin(c.input), TMax(c.input)>>
    ELSE <<op[c.layer].tracked_min, op[c.layer].tracked_max>>

\* C2: a quantize_weight or quantize_output call made while the step counter is
\* below the layer's quant_start_step returns its input unchanged; a call made
\* at or above it returns dequantize(quantize(input)) with the scale and
\* zero_point solved in that call.
C2_Gating ==
    (lastCall.call \in Hooks /\ lastCall.result = "ok")
    => LET l == lastCall.layer
           bits == config[l].quant_bits[QuantType(lastCall.call)]
           r == SolvedFrom(lastCall)
       IN  IF lastCall.steps < config[l].quant_start_step
           THEN lastCall.out = lastCall.input
           ELSE /\ <<op[l].scale, op[l].zero_point>>
                       = update_quantization_param(bits, r[1], r[2])
                /\ lastCall.out =
                       [i \in DOMAIN lastCall.input |->
                           RefDequantize(op[l].scale, op[l].zero_point,
                               RefQuantize(bits, op[l].scale, op[l].zero_point,
                                           lastCall.input[i]))]

\* a hook call made exactly at quant_start_step >= 2 that changed its input
C2_Witness ==
    /\ lastCall.call \in Hooks
    /\ lastCall.result = "ok"
    /\ lastCall.steps = config[lastCall.layer].quant_start_step
    /\ lastCall.steps >= 2
    /\ lastCall.out # lastCall.input
    /\ ~IsNaN(lastCall.out[1])

\* C5: if every batch the active quantize_output calls on a layer have seen has
\* the same minimum m and maximum M, then tracked_min = m and tracked_max = M.
C5_BiasCorrected ==
    \A l \in Layers :
        Cardinality(seen[l]) = 1
        => \A b \in seen[l] : op[l].tracked_min = b[1] /\ op[l].tracked_max = b[2]

\* C6: a hook call whose configured bit-width is below 1 fails with an
\* assertion, inactive or active, and leaves the buffers of every layer and the
\* step counter unchanged.
C6_AssertBits ==
    [][ ( /\ lastCall'.call \in Hooks
          /\ config[lastCall'.layer].quant_bits[QuantType(lastCall'.call)] < 1 )
        => ( /\ lastCall'.result = "AssertionError"
             /\ op' = op
             /\ steps' = steps ) ]_vars

\* a failed call on a layer that is past its quant_start_step and whose
\* buffers an earlier call has written
C6_Witness ==
    /\ lastCall.call \in Hooks
    /\ lastCall.result = "AssertionError"
    /\ lastCall.steps >= config[lastCall.layer].quant_start_step
    /\ op[lastCall.layer].scale # None
    /\ op[lastCall.layer].tracked_max_biased # R(0)

\* C10: the step counter starts at 1, only step() changes it, by exactly 1, so
\* it is always >= 1; and once a hook call on a layer has quantized, every later
\* hook call on that layer that returns quantizes too.
C10_StepCounter ==
    /\ steps = 1
    /\ [](steps >= 1)
    /\ [][ steps' # steps => (lastCall'.call = "step" /\ steps' = steps + 1) ]_vars
    /\ [][ ( /\ lastCall'.call \in Hooks
             /\ lastCall'.result = "ok"
             /\ was_active[lastCall'.layer] )
           => lastCall'.path = "quantize" ]_vars

\* a quantizing quantize_weight call on a layer whose EMA an earlier, active
\* quantize_output call has updated, made after the counter has moved on
C10_Witness ==
    /\ lastCall.call = "quantize_weight"
    /\ lastCall.path = "quantize"
    /\ op[lastCall.layer].tracked_max_biased # R(0)
    /\ lastCall.steps > config[lastCall.layer].quant_start_step
    /\ lastCall.steps = MaxSteps

---------------------------------------------------------------------------
(* Properties of NaiveQuantizer (checked under SpecNaive)                  *)

\* C7: after a quantize_weight call the layer's persisted scale is
\* max(its previous scale, or 0 if it had none, max|weight| / 127), hence not
\* below the previous one, and the scales of the other layers are untouched.
C7_ScaleMonotonic ==
    [][ lastCall'.call = "naive_quantize_weight"
        => LET l == lastCall'.layer
               previous == IF l \in DOMAIN layer_scale THEN layer_scale[l] ELSE R(0)
               new_scale == Div(AbsMax(lastCall'.input), R(127))
           IN  /\ DOMAIN layer_scale' = DOMAIN layer_scale \cup {l}
               /\ layer_scale'[l] = IF Lt(previous, new_scale) THEN new_scale ELSE previous
               /\ Le(previous, layer_scale'[l])
               /\ \A k \in DOMAIN layer_scale \ {l} : layer_scale'[k] = layer_scale[k] ]_vars

\* a call with a weight of smaller range than the layer's persisted scale
\* covers, with the other layer's scale set as well
C7_Witness ==
    /\ lastCall.call = "naive_quantize_weight"
    /\ DOMAIN layer_scale = NaiveLayers
    /\ Lt(Div(AbsMax(lastCall.input), R(127)), layer_scale[lastCall.layer])

\* C8: every output element is round(weight / scale) * scale for the layer's
\* persisted scale.
C8_RoundedToNearest ==
    lastCall.call = "naive_quantize_weight"
    => LET scale == layer_scale[lastCall.layer]
       IN  scale # R(0)
           => \A i \in DOMAIN lastCall.input :
                  lastCall.out[i] = Mul(Round(Div(lastCall.input[i], scale)), scale)

---------------------------------------------------------------------------
(* Properties of DoReFaQuantizer (checked under SpecDoReFa)                *)

\* C9: for a weight that is not all zero every output element is
\* 2 * k / (2^q_bits - 1) - 1 for an integer k in [0, 2^q_bits - 1], so it lies
\* in [-1, 1]; with q_bits = 1 it is exactly -1 or 1.
C9_DoReFaGrid ==
    ( /\ lastCall.call = "dorefa_quantize_weight"
      /\ \E i \in DOMAIN lastCall.input : lastCall.input[i] # R(0) )
    => \A i \in DOMAIN lastCall.out :
           /\ \E k \in 0..QMax(lastCall.bits) :
                  lastCall.out[i] = Sub(Div(R(2 * k), R(QMax(lastCall.bits))), R(1))
           /\ Le(R(-1), lastCall.out[i]) /\ Le(lastCall.out[i], R(1))
           /\ lastCall.bits = 1 => lastCall.out[i] \in {R(-1), R(1)}

\* q_bits = 1 with a zero element (the tie 0.5) beside a non-zero one
C9_Witness ==
    /\ lastCall.call = "dorefa_quantize_weight"
    /\ lastCall.bits = 1
    /\ lastCall.input[1] = R(0)
    /\ lastCall.input[2] # R(0)
    /\ lastCall.out[1] = R(-1)

=============================================================================
